---- MODULE Spec2Model ----
(***************************************************************************)
(* The Redux store of learn-redux: the counter slice, the todo slice, the  *)
(* root reducer built by combineReducers and the store's dispatch cycle.   *)
(*                                                                         *)
(* Every JavaScript object the reducers build carries a `ref`: the         *)
(* identity of the object.  An object literal ({...state, ...}) and the    *)
(* arrays built by map / filter / spread get a fresh ref; returning        *)
(* `state` or `todo` itself keeps the ref.  Two values of the model are    *)
(* the same object exactly when they are equal, ref included.              *)
(*                                                                         *)
(* Time is counted in milliseconds from the moment the todo slice module   *)
(* was loaded: Date.now() returned 1730685600000 then, and t stands for    *)
(* 1730685600000 + t.  The clock never runs backwards.                     *)
(***************************************************************************)
EXTENDS Integers, Sequences, FiniteSets, TLC

(***************************************************************************)
(* Bounds of the model.                                                    *)
(***************************************************************************)
\* number of operations dispatched in one behaviour
MaxOps == 3
\* largest |N| of incrementByAmount(N)
MaxAmount == 2
\* milliseconds that pass on the clock after module load
MaxTicks == 1
\* dispatches made through the components in one run
MaxUiOps == 2
\* dispatches made through the three forms in one run
MaxFormOps == 1
\* longest task list the statistics are computed on
MaxListLen == 40

\* payloads of incrementByAmount
Amounts == {-MaxAmount, MaxAmount}
\* texts of addTodo
AddTexts == {"Buy milk"}
\* texts of editTodo
EditTexts == {"Walk dog"}
\* values of Math.random().toString(36).substr(2, 9)
RandomSuffixes == {"i", "4fzyo82mv"}
\* the values of TodoState.filter
Filters == {"ALL", "ACTIVE", "COMPLETED"}
\* payloads of setFilter: the reducer does not validate them
FilterArgs == Filters \cup {"ARCHIVED"}
\* payloads of setSearchTerm
SearchTerms == {"", " MILK"}
\* an id no task ever has
MissingId == "no-such-id"

(***************************************************************************)
(* Action types.                                                           *)
(***************************************************************************)
INCREMENT == "counter/increment"
DECREMENT == "counter/decrement"
INCREMENT_BY_AMOUNT == "counter/incrementByAmount"
RESET == "counter/reset"

ADD_TODO == "todos/addTodo"
TOGGLE_TODO == "todos/toggleTodo"
DELETE_TODO == "todos/deleteTodo"
EDIT_TODO == "todos/editTodo"
CLEAR_COMPLETED == "todos/clearCompleted"
SET_FILTER == "todos/setFilter"
SET_SEARCH_TERM == "todos/setSearchTerm"
MARK_ALL_COMPLETE == "todos/markAllComplete"

\* the action createStore dispatches once, and a tag no reducer knows
REDUX_INIT == "@@redux/INIT"
UNKNOWN_TAG == "app/unknown"

CounterTags == {INCREMENT, DECREMENT, INCREMENT_BY_AMOUNT, RESET}
TodoTags == {ADD_TODO, TOGGLE_TODO, DELETE_TODO, EDIT_TODO, CLEAR_COMPLETED,
             SET_FILTER, SET_SEARCH_TERM, MARK_ALL_COMPLETE}

\* JavaScript's undefined (a reducer's state argument on the first call)
Undefined == [undefined |-> TRUE]

VARIABLES
    store,      \* the store's current RootState
    ops,        \* the operations dispatched so far, in order
    now,        \* the last value Date.now() returned
    nextRef,    \* the next unused object identity
    snapshots,  \* snapshots[k]: the RootState the store held when ops[k]
                \* was dispatched (what an observer read just before it)
    ui,         \* the components' local state (useState): newTodoText,
                \* editingId, editText of TodoApp, incrementAmount of Counter
    handled     \* the last event handler of a component that ran: its name,
                \* the input it read, whether it dispatched, and the
                \* RootState it ran in

vars == <<store, ops, now, nextRef, snapshots, ui, handled>>

(***************************************************************************)
(* Counter slice.                                                          *)
(***************************************************************************)
\* initialState with a wrong starting value
counterInitialState_StartsAtOne ==
    [ref |-> 1, value |-> 1, lastAction |-> "none"]

counterInitialState == [ref |-> 1, value |-> 0, lastAction |-> "none"]

\* `increment by ${action.payload}`
IncrementByLabel(payload) == "increment by " \o ToString(payload)

CounterIncrement(state, ref) ==
    [state EXCEPT !.ref = ref, !.value = state.value + 1,
                  !.lastAction = "increment"]

\* DECREMENT labelled like INCREMENT
CounterDecrement_WrongLabel(state, ref) ==
    [state EXCEPT !.ref = ref, !.value = state.value - 1,
                  !.lastAction = "increment"]

CounterDecrement(state, ref) ==
    [state EXCEPT !.ref = ref, !.value = state.value - 1,
                  !.lastAction = "decrement"]

\* INCREMENT_BY_AMOUNT that ignores its payload
CounterIncrementByAmount_AddsOne(state, payload, ref) ==
    [state EXCEPT !.ref = ref, !.value = state.value + 1,
                  !.lastAction = IncrementByLabel(payload)]

\* INCREMENT_BY_AMOUNT labelled with its tag
CounterIncrementByAmount_TagLabel(state, payload, ref) ==
    [state EXCEPT !.ref = ref, !.value = state.value + payload,
                  !.lastAction = "incrementByAmount"]

CounterIncrementByAmount(state, payload, ref) ==
    [state EXCEPT !.ref = ref, !.value = state.value + payload,
                  !.lastAction = IncrementByLabel(payload)]

\* RESET that records the label and keeps the value
CounterReset_KeepsValue(state, ref) ==
    [state EXCEPT !.ref = ref, !.lastAction = "reset"]

CounterReset(state, ref) ==
    [state EXCEPT !.ref = ref, !.value = 0, !.lastAction = "reset"]

\* default branch that returns initialState instead of state
CounterDefault_Initial(state) == counterInitialState

CounterDefault(state) == state

counterReducer(stateArg, action, ref) ==
    LET state == IF stateArg = Undefined THEN counterInitialState
                 ELSE stateArg
    IN  CASE action.type = INCREMENT -> CounterIncrement(state, ref)
          [] action.type = DECREMENT -> CounterDecrement(state, ref)
          [] action.type = INCREMENT_BY_AMOUNT ->
                 CounterIncrementByAmount(state, action.payload, ref)
          [] action.type = RESET -> CounterReset(state, ref)
          [] OTHER -> CounterDefault(state)

selectCounterValue(state) == state.counter.value
selectLastAction(state) == state.counter.lastAction

selectIsPositive(state) == state.counter.value > 0

\* the % of JavaScript on integers: the remainder takes the sign of the
\* dividend (-3 % 2 is -1)
JsRemainder(a, b) ==
    LET abs(x) == IF x < 0 THEN 0 - x ELSE x
        r == abs(a) % abs(b)
    IN  IF a < 0 THEN 0 - r ELSE r

\* evenness tested as "the remainder is not 1": wrong below zero
selectIsEven_NotOne(state) == JsRemainder(state.counter.value, 2) # 1

selectIsEven(state) == JsRemainder(state.counter.value, 2) = 0

(***************************************************************************)
(* Todo slice.                                                             *)
(***************************************************************************)
\* Date.now().toString(): the 13 decimal digits of 1730685600000 + t,
\* for 0 <= t < 100
DateNowToString(t) ==
    IF t < 10 THEN "173068560000" \o ToString(t)
    ELSE "17306856000" \o ToString(t)

\* Date.now().toString() + Math.random().toString(36).substr(2, 9)
generateId(t, rnd) == DateNowToString(t) \o rnd

todoInitialState ==
    [ref |-> 6,
     todosRef |-> 5,
     todos |-> <<
        [ref |-> 2, id |-> "1", text |-> "Learn Redux fundamentals",
         completed |-> TRUE, createdAt |-> 0 - 86400000],
        [ref |-> 3, id |-> "2", text |-> "Build a todo app with Redux",
         completed |-> FALSE, createdAt |-> 0 - 3600000],
        [ref |-> 4, id |-> "3", text |-> "Master React-Redux patterns",
         completed |-> FALSE, createdAt |-> 0] >>,
     filter |-> "ALL",
     searchTerm |-> ""]

\* env: [ref: first unused identity, idTime, rnd, createdTime]
\* a new TodoState takes env.ref + 1, a new array env.ref + 2 and a new
\* task at index i of the new array env.ref + 2 + i
\* ADD_TODO that appends: [...state.todos, newTodo]
TodoAdd_Appends(state, payload, env) ==
    [state EXCEPT
        !.ref = env.ref + 1,
        !.todosRef = env.ref + 2,
        !.todos = state.todos \o
                  << [ref |-> env.ref + 3,
                      id |-> generateId(env.idTime, env.rnd),
                      text |-> payload,
                      completed |-> FALSE,
                      createdAt |-> env.createdTime] >>]

TodoAdd(state, payload, env) ==
    [state EXCEPT
        !.ref = env.ref + 1,
        !.todosRef = env.ref + 2,
        !.todos = << [ref |-> env.ref + 3,
                      id |-> generateId(env.idTime, env.rnd),
                      text |-> payload,
                      completed |-> FALSE,
                      createdAt |-> env.createdTime] >> \o state.todos]

\* TOGGLE_TODO that copies the flag without the `!`
TodoToggle_NoInvert(state, payload, env) ==
    [state EXCEPT
        !.ref = env.ref + 1,
        !.todosRef = env.ref + 2,
        !.todos = [i \in 1..Len(state.todos) |->
                    IF state.todos[i].id = payload
                    THEN [state.todos[i] EXCEPT !.ref = env.ref + 2 + i]
                    ELSE state.todos[i]]]

\* TOGGLE_TODO that sets the flag instead of inverting it
TodoToggle_SetsTrue(state, payload, env) ==
    [state EXCEPT
        !.ref = env.ref + 1,
        !.todosRef = env.ref + 2,
        !.todos = [i \in 1..Len(state.todos) |->
                    IF state.todos[i].id = payload
                    THEN [state.todos[i] EXCEPT
                             !.ref = env.ref + 2 + i,
                             !.completed = TRUE]
                    ELSE state.todos[i]]]

\* TOGGLE_TODO with the comparison inverted: todo.id !== action.payload
TodoToggle_Others(state, payload, env) ==
    [state EXCEPT
        !.ref = env.ref + 1,
        !.todosRef = env.ref + 2,
        !.todos = [i \in 1..Len(state.todos) |->
                    IF state.todos[i].id # payload
                    THEN [state.todos[i] EXCEPT
                             !.ref = env.ref + 2 + i,
                             !.completed = ~state.todos[i].completed]
                    ELSE state.todos[i]]]

\* TOGGLE_TODO that flips the flag on the task object itself instead of
\* on a copy
TodoToggle_InPlace(state, payload, env) ==
    [state EXCEPT
        !.ref = env.ref + 1,
        !.todosRef = env.ref + 2,
        !.todos = [i \in 1..Len(state.todos) |->
                    IF state.todos[i].id = payload
                    THEN [state.todos[i] EXCEPT
                             !.completed = ~state.todos[i].completed]
                    ELSE state.todos[i]]]

TodoToggle(state, payload, env) ==
    [state EXCEPT
        !.ref = env.ref + 1,
        !.todosRef = env.ref + 2,
        !.todos = [i \in 1..Len(state.todos) |->
                    IF state.todos[i].id = payload
                    THEN [state.todos[i] EXCEPT
                             !.ref = env.ref + 2 + i,
                             !.completed = ~state.todos[i].completed]
                    ELSE state.todos[i]]]

\* DELETE_TODO that returns the surviving tasks in reverse order
TodoDelete_Reversed(state, payload, env) ==
    LET kept == SelectSeq(state.todos, LAMBDA todo : todo.id # payload)
    IN  [state EXCEPT
            !.ref = env.ref + 1,
            !.todosRef = env.ref + 2,
            !.todos = [i \in 1..Len(kept) |-> kept[Len(kept) + 1 - i]]]

TodoDelete(state, payload, env) ==
    [state EXCEPT
        !.ref = env.ref + 1,
        !.todosRef = env.ref + 2,
        !.todos = SelectSeq(state.todos, LAMBDA todo : todo.id # payload)]

\* EDIT_TODO that rebuilds the task and loses its completed flag
TodoEdit_DropsFlag(state, payload, env) ==
    [state EXCEPT
        !.ref = env.ref + 1,
        !.todosRef = env.ref + 2,
        !.todos = [i \in 1..Len(state.todos) |->
                    IF state.todos[i].id = payload.id
                    THEN [state.todos[i] EXCEPT
                             !.ref = env.ref + 2 + i,
                             !.text = payload.text,
                             !.completed = FALSE]
                    ELSE state.todos[i]]]

\* EDIT_TODO that stamps the time of the edit on the task
TodoEdit_Restamps(state, payload, env) ==
    [state EXCEPT
        !.ref = env.ref + 1,
        !.todosRef = env.ref + 2,
        !.todos = [i \in 1..Len(state.todos) |->
                    IF state.todos[i].id = payload.id
                    THEN [state.todos[i] EXCEPT
                             !.ref = env.ref + 2 + i,
                             !.text = payload.text,
                             !.createdAt = env.createdTime]
                    ELSE state.todos[i]]]

TodoEdit(state, payload, env) ==
    [state EXCEPT
        !.ref = env.ref + 1,
        !.todosRef = env.ref + 2,
        !.todos = [i \in 1..Len(state.todos) |->
                    IF state.todos[i].id = payload.id
                    THEN [state.todos[i] EXCEPT
                             !.ref = env.ref + 2 + i,
                             !.text = payload.text]
                    ELSE state.todos[i]]]

\* CLEAR_COMPLETED with the predicate inverted: keeps the completed tasks
TodoClearCompleted_Inverted(state, env) ==
    [state EXCEPT
        !.ref = env.ref + 1,
        !.todosRef = env.ref + 2,
        !.todos = SelectSeq(state.todos, LAMBDA todo : todo.completed)]

TodoClearCompleted(state, env) ==
    [state EXCEPT
        !.ref = env.ref + 1,
        !.todosRef = env.ref + 2,
        !.todos = SelectSeq(state.todos, LAMBDA todo : ~todo.completed)]

TodoSetFilter(state, payload, env) ==
    [state EXCEPT !.ref = env.ref + 1, !.filter = payload]

\* SET_SEARCH_TERM that stores action.payload.trim()
TodoSetSearchTerm_Trims(state, payload, env) ==
    [state EXCEPT !.ref = env.ref + 1,
                  !.searchTerm = IF payload = " MILK" THEN "MILK"
                                 ELSE payload]

TodoSetSearchTerm(state, payload, env) ==
    [state EXCEPT !.ref = env.ref + 1, !.searchTerm = payload]

\* MARK_ALL_COMPLETE as an unconditional "mark complete"
TodoMarkAllComplete_Always(state, env) ==
    [state EXCEPT
        !.ref = env.ref + 1,
        !.todosRef = env.ref + 2,
        !.todos = [i \in 1..Len(state.todos) |->
                    [state.todos[i] EXCEPT
                        !.ref = env.ref + 2 + i,
                        !.completed = TRUE]]]

TodoMarkAllComplete(state, env) ==
    LET allCompleted ==
            \A i \in 1..Len(state.todos) : state.todos[i].completed
    IN  [state EXCEPT
            !.ref = env.ref + 1,
            !.todosRef = env.ref + 2,
            !.todos = [i \in 1..Len(state.todos) |->
                        [state.todos[i] EXCEPT
                            !.ref = env.ref + 2 + i,
                            !.completed = ~allCompleted]]]

\* default branch that returns initialState instead of state
TodoDefault_Initial(state) == todoInitialState

TodoDefault(state) == state

todoReducer(stateArg, action, env) ==
    LET state == IF stateArg = Undefined THEN todoInitialState ELSE stateArg
    IN  CASE action.type = ADD_TODO -> TodoAdd(state, action.payload, env)
          [] action.type = TOGGLE_TODO ->
                 TodoToggle(state, action.payload, env)
          [] action.type = DELETE_TODO ->
                 TodoDelete(state, action.payload, env)
          [] action.type = EDIT_TODO -> TodoEdit(state, action.payload, env)
          [] action.type = CLEAR_COMPLETED -> TodoClearCompleted(state, env)
          [] action.type = SET_FILTER ->
                 TodoSetFilter(state, action.payload, env)
          [] action.type = SET_SEARCH_TERM ->
                 TodoSetSearchTerm(state, action.payload, env)
          [] action.type = MARK_ALL_COMPLETE ->
                 TodoMarkAllComplete(state, env)
          [] OTHER -> TodoDefault(state)

(***************************************************************************)
(* Todo selectors.                                                         *)
(***************************************************************************)
\* the UTF-16 code units of the strings the model uses ("" has none)
Chars(s) ==
    CASE s = "Buy milk" ->
                 <<"B", "u", "y", " ", "m", "i", "l", "k">>
      [] s = "Walk dog" ->
                 <<"W", "a", "l", "k", " ", "d", "o", "g">>
      [] s = "Learn Redux fundamentals" ->
                 <<"L", "e", "a", "r", "n", " ", "R", "e", "d", "u",
                   "x", " ", "f", "u", "n", "d", "a", "m", "e", "n",
                   "t", "a", "l", "s">>
      [] s = "Build a todo app with Redux" ->
                 <<"B", "u", "i", "l", "d", " ", "a", " ", "t", "o",
                   "d", "o", " ", "a", "p", "p", " ", "w", "i", "t",
                   "h", " ", "R", "e", "d", "u", "x">>
      [] s = "Master React-Redux patterns" ->
                 <<"M", "a", "s", "t", "e", "r", " ", "R", "e", "a",
                   "c", "t", "-", "R", "e", "d", "u", "x", " ", "p",
                   "a", "t", "t", "e", "r", "n", "s">>
      [] s = " MILK" ->
                 <<" ", "M", "I", "L", "K">>
      [] s = "   " ->
                 <<" ", " ", " ">>
      [] s = " Buy milk " ->
                 <<" ", "B", "u", "y", " ", "m", "i", "l", "k", " ">>
      [] s = "Walk dog  " ->
                 <<"W", "a", "l", "k", " ", "d", "o", "g", " ", " ">>
      [] s = "2" -> <<"2">>
      [] s = "-3" -> <<"-", "3">>
      [] s = "1.5" -> <<"1", ".", "5">>
      [] OTHER -> << >>

UpperCaseLetters ==
    <<"A", "B", "C", "D", "E", "F", "G", "H", "I", "J", "K", "L", "M",
      "N", "O", "P", "Q", "R", "S", "T", "U", "V", "W", "X", "Y", "Z">>

LowerCaseLetters ==
    <<"a", "b", "c", "d", "e", "f", "g", "h", "i", "j", "k", "l", "m",
      "n", "o", "p", "q", "r", "s", "t", "u", "v", "w", "x", "y", "z">>

\* a comparison that forgets toLowerCase: case-sensitive search
toLowerCase_Identity(cs) == cs

\* the lower case of each upper-case letter
LowerCaseOf ==
    [c \in {UpperCaseLetters[k] : k \in 1..Len(UpperCaseLetters)} |->
        LowerCaseLetters[CHOOSE k \in 1..Len(UpperCaseLetters) :
                             UpperCaseLetters[k] = c]]

\* String.prototype.toLowerCase, on code units
toLowerCase(cs) ==
    [i \in 1..Len(cs) |->
        IF cs[i] \in DOMAIN LowerCaseOf THEN LowerCaseOf[cs[i]] ELSE cs[i]]

\* String.prototype.includes, on code units
includes(hay, needle) ==
    \E i \in 1..(Len(hay) - Len(needle) + 1) :
        \A p \in 1..Len(needle) : hay[i + p - 1] = needle[p]

selectAllTodos(state) == state.todos.todos
selectCurrentFilter(state) == state.todos.filter
selectSearchTerm(state) == state.todos.searchTerm

selectFilteredTodos(state) ==
    LET todos == state.todos.todos
        filter == state.todos.filter
        searchTerm == state.todos.searchTerm
        filteredTodos ==
            IF searchTerm # ""
            THEN SelectSeq(todos, LAMBDA todo :
                     includes(toLowerCase(Chars(todo.text)),
                              toLowerCase(Chars(searchTerm))))
            ELSE todos
    IN  CASE filter = "ACTIVE" ->
                 SelectSeq(filteredTodos, LAMBDA todo : ~todo.completed)
          [] filter = "COMPLETED" ->
                 SelectSeq(filteredTodos, LAMBDA todo : todo.completed)
          [] OTHER -> filteredTodos

(***************************************************************************)
(* Math.round((completed / total) * 100) in IEEE-754 double arithmetic,    *)
(* for integers 0 < completed <= total.  The quotient is rounded to 53     *)
(* significant bits, the product by 100 is rounded again, and Math.round   *)
(* takes halves up.  Unless 100 * completed / total lies exactly on a half *)
(* the two roundings are far too small to matter and the result is the     *)
(* nearest integer.  On a half n + 1/2 the result is n if the rounded      *)
(* product falls below n + 1/2 and n + 1 otherwise.                        *)
(***************************************************************************)
\* the j with completed * 2^j / total in [1, 2): the quotient's binary
\* exponent is -j
RECURSIVE BinaryShift(_, _)
BinaryShift(completed, total) ==
    IF completed >= total THEN 0 ELSE 1 + BinaryShift(2 * completed, total)

\* (rem * 2^k) % total
RECURSIVE ShiftedRemainder(_, _, _)
ShiftedRemainder(rem, total, k) ==
    IF k = 0 THEN rem ELSE ShiftedRemainder((2 * rem) % total, total, k - 1)

\* the binary exponent of n + 1/2
RECURSIVE HalfExponent(_)
HalfExponent(n) ==
    IF n = 0 THEN 0 - 1 ELSE IF n = 1 THEN 0 ELSE 1 + HalfExponent(n \div 2)

\* fl(completed / total) - completed / total, in units of
\* 1 / (total * 2^(52 + j)): the quotient is rounded to the nearest
\* multiple of 2^-(52 + j)
QuotientError(completed, total) ==
    LET rem == ShiftedRemainder(completed % total, total,
                                52 + BinaryShift(completed, total))
    IN  IF 2 * rem > total THEN total - rem ELSE 0 - rem

RoundedPercentage(completed, total) ==
    LET onHalf == (200 * completed) % total = 0
                      /\ ((200 * completed) \div total) % 2 = 1
        n == (100 * completed) \div total
        \* half an ulp of the product over one unit of the quotient's error
        s == HalfExponent(n) + BinaryShift(completed, total)
    IN  IF ~onHalf THEN (200 * completed + total) \div (2 * total)
        ELSE IF (0 - 200) * QuotientError(completed, total) > total * 2^s
             THEN n
             ELSE n + 1

\* statistics counted on the tasks on display instead of on all tasks
selectTodoStats_OfDisplayed(state) ==
    LET todos == selectFilteredTodos(state)
        total == Len(todos)
        completed == Len(SelectSeq(todos, LAMBDA todo : todo.completed))
        active == total - completed
    IN  [total |-> total,
         completed |-> completed,
         active |-> active,
         completionPercentage |->
             IF total > 0 THEN RoundedPercentage(completed, total) ELSE 0]

selectTodoStats(state) ==
    LET todos == state.todos.todos
        total == Len(todos)
        completed == Len(SelectSeq(todos, LAMBDA todo : todo.completed))
        active == total - completed
    IN  [total |-> total,
         completed |-> completed,
         active |-> active,
         completionPercentage |->
             IF total > 0 THEN RoundedPercentage(completed, total) ELSE 0]

\* a selector without the length test: an empty list counts as all completed
selectAllTodosCompleted_NoLengthCheck(state) ==
    \A i \in 1..Len(state.todos.todos) : state.todos.todos[i].completed

selectAllTodosCompleted(state) ==
    LET todos == state.todos.todos
    IN  /\ Len(todos) > 0
        /\ \A i \in 1..Len(todos) : todos[i].completed

\* the label with the two texts exchanged
BulkToggleLabel_Swapped(state) ==
    IF selectAllTodosCompleted(state) THEN "Mark All Complete"
    ELSE "Mark All Incomplete"

\* TodoApp: the text on the bulk-toggle button
BulkToggleLabel(state) ==
    IF selectAllTodosCompleted(state) THEN "Mark All Incomplete"
    ELSE "Mark All Complete"

(***************************************************************************)
(* Root reducer and store.                                                 *)
(***************************************************************************)
\* identities one dispatch may use: counter state, todo state, array, one
\* per task of the new array, root state
RefBlock(state) ==
    IF state = Undefined THEN 1 ELSE Len(state.todos.todos) + 5

\* combineReducers({counter: counterReducer, todos: todoReducer})
rootReducer(state, action, env) ==
    LET prevCounter == IF state = Undefined THEN Undefined ELSE state.counter
        prevTodos == IF state = Undefined THEN Undefined ELSE state.todos
        nextCounter == counterReducer(prevCounter, action, env.ref)
        nextTodos == todoReducer(prevTodos, action, env)
        hasChanged == nextCounter # prevCounter \/ nextTodos # prevTodos
    IN  IF hasChanged
        THEN [ref |-> env.ref + RefBlock(state) - 1,
              counter |-> nextCounter,
              todos |-> nextTodos]
        ELSE state

\* the environment of a dispatch that reads neither the clock nor
\* Math.random
NoEnv == [ref |-> nextRef, idTime |-> now, rnd |-> "", createdTime |-> now]

\* store.dispatch(action)
Dispatch(action, env) ==
    /\ Len(ops) < MaxOps
    /\ store' = rootReducer(store, action, env)
    /\ ops' = Append(ops, action)
    /\ snapshots' = Append(snapshots, store)
    /\ now' = env.createdTime
    /\ nextRef' = nextRef + RefBlock(store)

\* store.dispatch(action) called directly, outside the components
StoreDispatch(action, env) ==
    /\ Dispatch(action, env)
    /\ UNCHANGED <<ui, handled>>

\* editingId = null
NoEditing == "<null>"

\* the components as mounted: useState("") for newTodoText and editText,
\* useState(null) for editingId, useState("2") for incrementAmount
uiInitialState ==
    [newTodoText |-> "", editingId |-> NoEditing, editText |-> "",
     incrementAmount |-> "2"]

\* no handler has run yet
NothingHandled(state) ==
    [handler |-> "none", input |-> "", dispatched |-> FALSE,
     before |-> state]

\* createStore(rootReducer): the state after the store's own first dispatch
Init ==
    /\ store = rootReducer(Undefined, [type |-> REDUX_INIT],
                  [ref |-> 7, idTime |-> 0, rnd |-> "", createdTime |-> 0])
    /\ ops = << >>
    /\ snapshots = << >>
    /\ now = 0
    /\ nextRef = 8
    /\ ui = uiInitialState
    /\ handled = NothingHandled(store)

\* ids a caller may name: those of the tasks in the list, and one of none
IdArgs == {store.todos.todos[i].id : i \in 1..Len(store.todos.todos)}
              \cup {MissingId}

Increment == StoreDispatch([type |-> INCREMENT], NoEnv)

Decrement == StoreDispatch([type |-> DECREMENT], NoEnv)

IncrementByAmount ==
    \E amount \in Amounts :
        StoreDispatch([type |-> INCREMENT_BY_AMOUNT, payload |-> amount], NoEnv)

Reset == StoreDispatch([type |-> RESET], NoEnv)

AddTodo ==
    \E text \in AddTexts, rnd \in RandomSuffixes, t1 \in now..MaxTicks :
        \E t2 \in t1..MaxTicks :
            StoreDispatch([type |-> ADD_TODO, payload |-> text],
                     [ref |-> nextRef, idTime |-> t1, rnd |-> rnd,
                      createdTime |-> t2])

ToggleTodo ==
    \E id \in IdArgs : StoreDispatch([type |-> TOGGLE_TODO, payload |-> id], NoEnv)

DeleteTodo ==
    \E id \in IdArgs : StoreDispatch([type |-> DELETE_TODO, payload |-> id], NoEnv)

EditTodo ==
    \E id \in IdArgs, text \in EditTexts :
        StoreDispatch([type |-> EDIT_TODO,
                  payload |-> [id |-> id, text |-> text]], NoEnv)

ClearCompleted == StoreDispatch([type |-> CLEAR_COMPLETED], NoEnv)

SetFilter ==
    \E filter \in FilterArgs :
        StoreDispatch([type |-> SET_FILTER, payload |-> filter], NoEnv)

SetSearchTerm ==
    \E term \in SearchTerms :
        StoreDispatch([type |-> SET_SEARCH_TERM, payload |-> term], NoEnv)

MarkAllComplete == StoreDispatch([type |-> MARK_ALL_COMPLETE], NoEnv)

UnknownAction == StoreDispatch([type |-> UNKNOWN_TAG], NoEnv)

Next ==
    \/ Increment
    \/ Decrement
    \/ IncrementByAmount
    \/ Reset
    \/ AddTodo
    \/ ToggleTodo
    \/ DeleteTodo
    \/ EditTodo
    \/ ClearCompleted
    \/ SetFilter
    \/ SetSearchTerm
    \/ MarkAllComplete
    \/ UnknownAction

Spec == Init /\ [][Next]_vars

\* the counter slice's operations alone
NextCounter ==
    \/ Increment
    \/ Decrement
    \/ IncrementByAmount
    \/ Reset

SpecCounter == Init /\ [][NextCounter]_vars

\* the operations that change the task list
NextList ==
    \/ AddTodo
    \/ ToggleTodo
    \/ DeleteTodo
    \/ EditTodo
    \/ ClearCompleted
    \/ MarkAllComplete

SpecList == Init /\ [][NextList]_vars

\* the operations on the display settings, with those that change what
\* the statistics count
NextDisplay ==
    \/ AddTodo
    \/ ToggleTodo
    \/ ClearCompleted
    \/ MarkAllComplete
    \/ SetFilter
    \/ SetSearchTerm

SpecDisplay == Init /\ [][NextDisplay]_vars

\* a task list built by the user: total tasks added at clock ticks 1..total,
\* newest first, the seeded tasks deleted and the completed newest tasks
\* toggled to completed
AddedTasks(total, completed) ==
    [i \in 1..total |->
        [ref |-> 9 + i,
         id |-> generateId(total + 1 - i, "i"),
         text |-> "Buy milk",
         completed |-> i <= completed,
         createdAt |-> total + 1 - i]]

\* the store holding such a list
StoreWithTasks(total, completed) ==
    LET created == rootReducer(Undefined, [type |-> REDUX_INIT],
                       [ref |-> 7, idTime |-> 0, rnd |-> "",
                        createdTime |-> 0])
    IN  [ref |-> 10 + total,
         counter |-> created.counter,
         todos |-> [ref |-> 8,
                    todosRef |-> 9,
                    todos |-> AddedTasks(total, completed),
                    filter |-> created.todos.filter,
                    searchTerm |-> created.todos.searchTerm]]

InitStats ==
    \E total \in 0..MaxListLen : \E completed \in 0..total :
        /\ store = StoreWithTasks(total, completed)
        /\ ops = << >>
        /\ snapshots = << >>
        /\ now = total
        /\ nextRef = 11 + total
        /\ ui = uiInitialState
        /\ handled = NothingHandled(store)

\* the two bulk operations, which move the counts the statistics report
NextStats ==
    \/ MarkAllComplete
    \/ ClearCompleted

SpecStats == InitStats /\ [][NextStats]_vars

(***************************************************************************)
(* Properties.                                                             *)
(***************************************************************************)
\* the operation dispatched last
LastOp == ops[Len(ops)]

\* the operations dispatched before the last one
EarlierOps == SubSeq(ops, 1, Len(ops) - 1)

\* the left fold of the numeric effects of a sequence of operations, from 0
RECURSIVE FoldValue(_)
FoldValue(s) ==
    IF s = << >> THEN 0
    ELSE LET before == FoldValue(SubSeq(s, 1, Len(s) - 1))
             op == s[Len(s)]
         IN  CASE op.type = INCREMENT -> before + 1
               [] op.type = DECREMENT -> before - 1
               [] op.type = INCREMENT_BY_AMOUNT -> before + op.payload
               [] op.type = RESET -> 0
               [] OTHER -> before

\* C1: after every sequence of dispatched operations counter.value is the
\* fold of the sequence from 0: +1 for increment, -1 for decrement, +N for
\* incrementByAmount(N), 0 after reset, unchanged by every other operation.
C1_ValueIsFold == selectCounterValue(store) = FoldValue(ops)

\* a negative value reached through incrementByAmount with a todo operation
\* and an unknown tag or reset in the sequence
C1_Witness ==
    /\ selectCounterValue(store) < 0
    /\ \E i \in 1..Len(ops) : ops[i].type = INCREMENT_BY_AMOUNT
    /\ \E i \in 1..Len(ops) : ops[i].type \in TodoTags \cup {UNKNOWN_TAG}

\* C2: in every reachable state no two entries of todos have the same id.
C2_UniqueIds ==
    \A i, j \in 1..Len(store.todos.todos) :
        i # j => store.todos.todos[i].id # store.todos.todos[j].id

\* the scenario: addTodo("Buy milk"), toggleTodo(<new id>),
\* setFilter("COMPLETED") dispatched from the default state
BuyMilkScenario ==
    /\ Len(ops) = 3
    /\ ops[1].type = ADD_TODO /\ ops[1].payload = "Buy milk"
    /\ ops[2].type = TOGGLE_TODO
    /\ Len(store.todos.todos) = 4
    /\ ops[2].payload = store.todos.todos[1].id
    /\ ops[3].type = SET_FILTER /\ ops[3].payload = "COMPLETED"

\* C3 as stated: after the scenario selectFilteredTodos returns exactly one
\* task, with text "Buy milk" and completed = true.
C3_Original ==
    BuyMilkScenario =>
        LET shown == selectFilteredTodos(store)
        IN  /\ Len(shown) = 1
            /\ shown[1].text = "Buy milk"
            /\ shown[1].completed

\* C3 amended: after the scenario selectFilteredTodos returns exactly two
\* tasks: the new task (text "Buy milk", completed = true) followed by the
\* seeded task "1", which is completed in the default state.
C3_ScenarioShowsTwo ==
    BuyMilkScenario =>
        LET shown == selectFilteredTodos(store)
        IN  /\ Len(shown) = 2
            /\ shown[1].text = "Buy milk"
            /\ shown[1].completed
            /\ shown[1].id = ops[2].payload
            /\ shown[2].id = "1"
            /\ shown[2].text = "Learn Redux fundamentals"
            /\ shown[2].completed

C3_Witness == BuyMilkScenario /\ Len(selectFilteredTodos(store)) = 2

\* the labels the reducer writes as string literals
LiteralLabels == {"none", "increment", "decrement", "reset"}

\* C4 as stated: counter.lastAction is always the sentinel "none" or a
\* member of one fixed enumerated set of labels, whatever the payloads.
C4_Original == selectLastAction(store) \in LiteralLabels

\* C4 amended: counter.lastAction is "none", "increment", "decrement",
\* "reset" or "increment by N" for the payload N of a dispatched
\* incrementByAmount(N): one label per payload, not a fixed set.
C4_LabelFamily ==
    selectLastAction(store) \in
        LiteralLabels \cup
        {IncrementByLabel(ops[i].payload) :
            i \in {j \in 1..Len(ops) : ops[j].type = INCREMENT_BY_AMOUNT}}

C4_Witness ==
    /\ ops # << >>
    /\ LastOp = [type |-> INCREMENT_BY_AMOUNT, payload |-> 0 - MaxAmount]
    /\ selectLastAction(store) \notin LiteralLabels

\* C5: an operation whose type is not a counter tag returns the very same
\* counter state, and one whose type is not a todo tag the very same todo
\* state.
C5_UnknownIsIdentity ==
    [][ops' # ops =>
          LET op == ops'[Len(ops')]
          IN  /\ op.type \notin CounterTags =>
                     store'.counter = store.counter
              /\ op.type \notin TodoTags => store'.todos = store.todos
              /\ op.type \notin CounterTags \cup TodoTags => store' = store
       ]_vars

\* an unknown tag dispatched after both slices have left their initial state
C5_Witness ==
    /\ Len(ops) = 3
    /\ ops[1].type \in CounterTags
    /\ ops[2].type \in TodoTags
    /\ ops[3].type = UNKNOWN_TAG
    /\ store.counter # counterInitialState
    /\ store.todos # todoInitialState

\* C6: every counter operation leaves the todos slice unchanged and every
\* todo operation leaves the counter slice unchanged.
C6_SlicesIndependent ==
    [][ops' # ops =>
          LET op == ops'[Len(ops')]
          IN  /\ op.type \in CounterTags =>
                     /\ store'.todos = store.todos
                     /\ store'.counter # store.counter
              /\ op.type \in TodoTags =>
                     /\ store'.counter = store.counter
                     /\ store'.todos # store.todos
       ]_vars

\* a counter operation dispatched on a changed todo list, and a todo
\* operation dispatched on a changed counter
C6_Witness ==
    /\ Len(ops) = 3
    /\ ops[1].type = ADD_TODO
    /\ ops[2].type = INCREMENT_BY_AMOUNT
    /\ ops[3].type = MARK_ALL_COMPLETE
    /\ Len(store.todos.todos) = 4
    /\ selectCounterValue(store) = MaxAmount

\* C7: the store's initial state is counter = {value: 0, lastAction:
\* "none"} and todos = the three seeded tasks "1", "2", "3" in that order
\* (completed = true, false, false), filter "ALL", searchTerm "".
C7_InitialState ==
    ops = << >> =>
        /\ store.counter.value = 0
        /\ store.counter.lastAction = "none"
        /\ Len(store.todos.todos) = 3
        /\ [i \in 1..3 |-> store.todos.todos[i].id] = <<"1", "2", "3">>
        /\ [i \in 1..3 |-> store.todos.todos[i].completed]
               = <<TRUE, FALSE, FALSE>>
        /\ store.todos.filter = "ALL"
        /\ store.todos.searchTerm = ""

C7_Witness ==
    /\ ops = << >>
    /\ store.counter = counterInitialState
    /\ store.todos = todoInitialState

\* C8: reset yields value = 0 and lastAction = "reset" from every counter
\* state.
C8_ResetYieldsZero ==
    [][(ops' # ops /\ ops'[Len(ops')].type = RESET) =>
          /\ store'.counter.value = 0
          /\ store'.counter.lastAction = "reset"
       ]_vars

\* reset dispatched on a negative value
C8_Witness ==
    /\ ops # << >>
    /\ LastOp.type = RESET
    /\ FoldValue(EarlierOps) < 0
    /\ selectCounterValue(store) = 0

\* the label of the most recent counter operation of a sequence
RECURSIVE LabelOfLastCounterOp(_)
LabelOfLastCounterOp(s) ==
    IF s = << >> THEN "none"
    ELSE LET op == s[Len(s)]
         IN  CASE op.type = INCREMENT -> "increment"
               [] op.type = DECREMENT -> "decrement"
               [] op.type = INCREMENT_BY_AMOUNT ->
                      IF op.payload < 0
                      THEN "increment by -" \o ToString(0 - op.payload)
                      ELSE "increment by " \o ToString(op.payload)
               [] op.type = RESET -> "reset"
               [] OTHER -> LabelOfLastCounterOp(SubSeq(s, 1, Len(s) - 1))

\* C9: counter.lastAction is the label of the most recent counter operation
\* dispatched, or "none" if there was none; todo operations and unknown
\* tags dispatched after it do not change it.
C9_LastActionIsLatestLabel ==
    selectLastAction(store) = LabelOfLastCounterOp(ops)

\* a decrement followed by a todo operation and an unknown tag
C9_Witness ==
    /\ Len(ops) = 3
    /\ ops[1].type = DECREMENT
    /\ ops[2].type \in TodoTags
    /\ ops[3].type = UNKNOWN_TAG
    /\ selectLastAction(store) = "decrement"

\* C10: addTodo(text) yields a list one longer whose element at index 0 is
\* a new task with the given text and completed = false, followed by all
\* previous tasks unchanged and in order; filter and searchTerm are kept.
C10_AddPrepends ==
    [][(ops' # ops /\ ops'[Len(ops')].type = ADD_TODO) =>
          LET old == store.todos.todos
              new == store'.todos.todos
          IN  /\ Len(new) = Len(old) + 1
              /\ new[1].text = ops'[Len(ops')].payload
              /\ new[1].completed = FALSE
              /\ \A i \in 1..Len(old) : new[1].ref # old[i].ref
              /\ SubSeq(new, 2, Len(new)) = old
              /\ store'.todos.filter = store.todos.filter
              /\ store'.todos.searchTerm = store.todos.searchTerm
       ]_vars

\* addTodo dispatched on a list and display settings that differ from the
\* default ones
C10_Witness ==
    /\ Len(ops) = 3
    /\ ops[1].type = SET_FILTER /\ ops[1].payload = "ACTIVE"
    /\ ops[2].type = CLEAR_COMPLETED
    /\ ops[3].type = ADD_TODO
    /\ Len(store.todos.todos) = 3
    /\ store.todos.todos[1].text = "Buy milk"
    /\ store.todos.filter = "ACTIVE"

(***************************************************************************)
(* The components: TodoApp and Counter.  An event handler is one action;   *)
(* a control that is not rendered cannot be used.                          *)
(***************************************************************************)
\* what the user types into the "new todo" input
NewTodoInputs == {"   ", " Buy milk "}

\* what the user types into the edit input of a task
EditInputs == {"   ", "Walk dog  "}

\* what the number input hands to onChange: "" for an entry that is not a
\* number, else the entry
AmountInputs == {"", "-3", "1.5"}

WhiteSpace == {" "}

\* String.prototype.trim, on code units
RECURSIVE TrimStart(_)
TrimStart(cs) ==
    IF cs # << >> /\ Head(cs) \in WhiteSpace THEN TrimStart(Tail(cs)) ELSE cs

RECURSIVE TrimEnd(_)
TrimEnd(cs) ==
    IF cs # << >> /\ cs[Len(cs)] \in WhiteSpace
    THEN TrimEnd(SubSeq(cs, 1, Len(cs) - 1))
    ELSE cs

\* the string made of the code units cs
RECURSIVE StringOf(_)
StringOf(cs) == IF cs = << >> THEN "" ELSE Head(cs) \o StringOf(Tail(cs))

\* String.prototype.trim: the string without its leading and trailing
\* white space
trim(s) == StringOf(TrimEnd(TrimStart(Chars(s))))

DecimalDigits == <<"0", "1", "2", "3", "4", "5", "6", "7", "8", "9">>

IsDigit(c) == \E d \in 1..Len(DecimalDigits) : DecimalDigits[d] = c

DigitValue(c) == (CHOOSE d \in 1..Len(DecimalDigits) : DecimalDigits[d] = c) - 1

\* the value of the longest prefix of cs made of decimal digits, continuing
\* from the value read so far; read is FALSE until a digit was read
RECURSIVE ParseDigits(_, _, _)
ParseDigits(cs, value, read) ==
    IF cs # << >> /\ IsDigit(Head(cs))
    THEN ParseDigits(Tail(cs), 10 * value + DigitValue(Head(cs)), TRUE)
    ELSE [isNaN |-> ~read, value |-> value]

\* parseInt(s, 10): leading white space, an optional sign, then decimal
\* digits up to the first other character; NaN if there is no digit
parseInt(s) ==
    LET cs == TrimStart(Chars(s))
        signed == cs # << >> /\ Head(cs) \in {"+", "-"}
        digits == ParseDigits(IF signed THEN Tail(cs) ELSE cs, 0, FALSE)
    IN  IF signed /\ Head(cs) = "-"
        THEN [digits EXCEPT !.value = 0 - digits.value]
        ELSE digits

\* the tasks TodoApp renders: filteredTodos.map(renderTodo)
RenderedTodos == selectFilteredTodos(store)

\* some rendered task is in editing mode: its edit input, Save and Cancel
\* are on the page
EditorRendered ==
    \E i \in 1..Len(RenderedTodos) : RenderedTodos[i].id = ui.editingId

\* a handler that dispatches: store.dispatch and the handler's record
HandlerDispatches(name, input, action, env) ==
    /\ Len(ops) < MaxUiOps
    /\ Dispatch(action, env)
    /\ handled' = [handler |-> name, input |-> input, dispatched |-> TRUE,
                   before |-> store]

\* a handler that returns without dispatching: one that only sets local
\* state, or one that turns its input down
HandlerRejects(name, input) ==
    /\ UNCHANGED <<store, ops, now, nextRef, snapshots>>
    /\ handled' = [handler |-> name, input |-> input, dispatched |-> FALSE,
                   before |-> store]

\* onChange of the "new todo" input
TypeNewTodo ==
    \E text \in NewTodoInputs :
        /\ ui' = [ui EXCEPT !.newTodoText = text]
        /\ HandlerRejects("setNewTodoText", "")

\* a handleAddTodo that tests the text as typed and dispatches it as typed
handleAddTodo_Untrimmed ==
    IF ui.newTodoText # ""
    THEN /\ \E rnd \in RandomSuffixes, t1 \in now..MaxTicks :
                \E t2 \in t1..MaxTicks :
                    HandlerDispatches("handleAddTodo", ui.newTodoText,
                        [type |-> ADD_TODO, payload |-> ui.newTodoText],
                        [ref |-> nextRef, idTime |-> t1, rnd |-> rnd,
                         createdTime |-> t2])
         /\ ui' = [ui EXCEPT !.newTodoText = ""]
    ELSE /\ HandlerRejects("handleAddTodo", ui.newTodoText)
         /\ UNCHANGED ui

handleAddTodo ==
    IF trim(ui.newTodoText) # ""
    THEN /\ \E rnd \in RandomSuffixes, t1 \in now..MaxTicks :
                \E t2 \in t1..MaxTicks :
                    HandlerDispatches("handleAddTodo", ui.newTodoText,
                        [type |-> ADD_TODO, payload |-> trim(ui.newTodoText)],
                        [ref |-> nextRef, idTime |-> t1, rnd |-> rnd,
                         createdTime |-> t2])
         /\ ui' = [ui EXCEPT !.newTodoText = ""]
    ELSE /\ HandlerRejects("handleAddTodo", ui.newTodoText)
         /\ UNCHANGED ui

\* the checkbox of a rendered task
handleToggleTodo ==
    \E i \in 1..Len(RenderedTodos) :
        /\ HandlerDispatches("handleToggleTodo", RenderedTodos[i].id,
               [type |-> TOGGLE_TODO, payload |-> RenderedTodos[i].id], NoEnv)
        /\ UNCHANGED ui

\* the Delete button of a rendered task that is not in editing mode
handleDeleteTodo ==
    \E i \in 1..Len(RenderedTodos) :
        /\ RenderedTodos[i].id # ui.editingId
        /\ HandlerDispatches("handleDeleteTodo", RenderedTodos[i].id,
               [type |-> DELETE_TODO, payload |-> RenderedTodos[i].id], NoEnv)
        /\ UNCHANGED ui

\* a click on the text of a rendered task that is not in editing mode
handleStartEdit ==
    \E i \in 1..Len(RenderedTodos) :
        /\ RenderedTodos[i].id # ui.editingId
        /\ ui' = [ui EXCEPT !.editingId = RenderedTodos[i].id,
                            !.editText = RenderedTodos[i].text]
        /\ HandlerRejects("handleStartEdit", "")

\* onChange of the edit input
TypeEditText ==
    /\ EditorRendered
    /\ \E text \in EditInputs : ui' = [ui EXCEPT !.editText = text]
    /\ HandlerRejects("setEditText", "")

\* the Save button, or Enter in the edit input
handleSaveEdit ==
    /\ EditorRendered
    /\ IF ui.editingId # NoEditing /\ trim(ui.editText) # ""
       THEN /\ HandlerDispatches("handleSaveEdit", ui.editText,
                   [type |-> EDIT_TODO,
                    payload |-> [id |-> ui.editingId,
                                 text |-> trim(ui.editText)]], NoEnv)
            /\ ui' = [ui EXCEPT !.editingId = NoEditing, !.editText = ""]
       ELSE /\ HandlerRejects("handleSaveEdit", ui.editText)
            /\ UNCHANGED ui

\* the Cancel button, or Escape in the edit input
handleCancelEdit ==
    /\ EditorRendered
    /\ ui' = [ui EXCEPT !.editingId = NoEditing, !.editText = ""]
    /\ HandlerRejects("handleCancelEdit", "")

\* the Clear Completed button, disabled while todoStats.completed is 0
handleClearCompleted ==
    /\ selectTodoStats(store).completed # 0
    /\ HandlerDispatches("handleClearCompleted", "",
           [type |-> CLEAR_COMPLETED], NoEnv)
    /\ UNCHANGED ui

\* the bulk-toggle button
handleMarkAllComplete ==
    /\ HandlerDispatches("handleMarkAllComplete", "",
           [type |-> MARK_ALL_COMPLETE], NoEnv)
    /\ UNCHANGED ui

\* one of the three filter buttons
handleFilterChange ==
    \E filter \in Filters :
        /\ HandlerDispatches("handleFilterChange", filter,
               [type |-> SET_FILTER, payload |-> filter], NoEnv)
        /\ UNCHANGED ui

\* onChange of the search input
handleSearchChange ==
    \E term \in SearchTerms :
        /\ HandlerDispatches("handleSearchChange", term,
               [type |-> SET_SEARCH_TERM, payload |-> term], NoEnv)
        /\ UNCHANGED ui

\* onChange of Counter's number input
TypeAmount ==
    \E entry \in AmountInputs :
        /\ ui' = [ui EXCEPT !.incrementAmount = entry]
        /\ HandlerRejects("setIncrementAmount", "")

handleIncrementByAmount ==
    LET amount == parseInt(ui.incrementAmount)
    IN  /\ IF ~amount.isNaN
           THEN HandlerDispatches("handleIncrementByAmount",
                    ui.incrementAmount,
                    [type |-> INCREMENT_BY_AMOUNT, payload |-> amount.value],
                    NoEnv)
           ELSE HandlerRejects("handleIncrementByAmount", ui.incrementAmount)
        /\ UNCHANGED ui

\* the user at the three forms of the freshly mounted page: the "new
\* todo" form, a task's edit input and Counter's amount input
NextForms ==
    \/ TypeNewTodo
    \/ Len(ops) < MaxFormOps /\ handleAddTodo
    \/ handleStartEdit
    \/ TypeEditText
    \/ Len(ops) < MaxFormOps /\ handleSaveEdit
    \/ handleCancelEdit
    \/ TypeAmount
    \/ Len(ops) < MaxFormOps /\ handleIncrementByAmount

SpecForms == Init /\ [][NextForms]_vars

\* the page after the user added a task, clicked its text to edit it,
\* ticked it as completed and pressed Clear Completed: the task is gone and
\* editingId still names it
InitEditing ==
    \E rnd \in RandomSuffixes :
        LET env(ref) == [ref |-> ref, idTime |-> 0, rnd |-> rnd,
                         createdTime |-> 0]
            created == rootReducer(Undefined, [type |-> REDUX_INIT], env(7))
            added == rootReducer(created,
                         [type |-> ADD_TODO, payload |-> "Buy milk"], env(8))
            task == added.todos.todos[1]
            ref2 == 8 + RefBlock(created)
            toggled == rootReducer(added,
                           [type |-> TOGGLE_TODO, payload |-> task.id],
                           env(ref2))
            ref3 == ref2 + RefBlock(added)
            cleared == rootReducer(toggled, [type |-> CLEAR_COMPLETED],
                           env(ref3))
        IN  /\ store = cleared
            /\ ops = << >>
            /\ snapshots = << >>
            /\ now = 0
            /\ nextRef = ref3 + RefBlock(toggled)
            /\ ui = [uiInitialState EXCEPT !.editingId = task.id,
                                           !.editText = task.text]
            /\ handled = [handler |-> "handleClearCompleted", input |-> "",
                          dispatched |-> TRUE, before |-> toggled]

\* the user at the todo list while that edit is neither cancelled nor
\* started again
NextEditing ==
    \/ TypeNewTodo
    \/ handleAddTodo
    \/ handleToggleTodo
    \/ handleDeleteTodo
    \/ TypeEditText
    \/ handleSaveEdit
    \/ handleClearCompleted
    \/ handleMarkAllComplete
    \/ handleFilterChange
    \/ handleSearchChange

SpecEditing == InitEditing /\ [][NextEditing]_vars

\* the RootState the store held when ops[k] was dispatched, and the one it
\* held once ops[k] had been reduced
StateBefore(k) == snapshots[k]
StateAfter(k) == IF k < Len(ops) THEN snapshots[k + 1] ELSE store

\* the positions of the dispatched operations of one type
OpsOfType(type) == {k \in 1..Len(ops) : ops[k].type = type}

\* a task without its object identity
TaskFields(todo) ==
    [id |-> todo.id, text |-> todo.text, completed |-> todo.completed,
     createdAt |-> todo.createdAt]

\* C11: toggleTodo(id) dispatched twice in a row with the same id returns
\* every task's completed flag to its original value and leaves every
\* task's text and id, and the list's length and order, unchanged.
C11_ToggleTwiceRestores ==
    \A k \in OpsOfType(TOGGLE_TODO) :
        (/\ k < Len(ops)
         /\ ops[k + 1].type = TOGGLE_TODO
         /\ ops[k + 1].payload = ops[k].payload) =>
            LET old == StateBefore(k).todos.todos
                new == StateAfter(k + 1).todos.todos
            IN  /\ Len(new) = Len(old)
                /\ \A i \in 1..Len(old) :
                       TaskFields(new[i]) = TaskFields(old[i])

\* a task toggled twice: completed in between, not completed before and
\* after
C11_Witness ==
    /\ Len(ops) = 3
    /\ ops[1].type = ADD_TODO
    /\ ops[2].type = TOGGLE_TODO
    /\ ops[3].type = TOGGLE_TODO
    /\ ops[3].payload = ops[2].payload
    /\ ops[2].payload = store.todos.todos[1].id
    /\ snapshots[3].todos.todos[1].completed
    /\ ~store.todos.todos[1].completed

\* C12: toggleTodo(id) inverts the completed flag of the task whose id
\* matches and of no other: the other tasks are the same records, length
\* and order are kept, and with no matching id the list is unchanged.
C12_ToggleOnlyMatching ==
    \A k \in OpsOfType(TOGGLE_TODO) :
        LET old == StateBefore(k).todos.todos
            new == StateAfter(k).todos.todos
        IN  /\ Len(new) = Len(old)
            /\ \A i \in 1..Len(old) :
                   IF old[i].id = ops[k].payload
                   THEN TaskFields(new[i]) =
                            [TaskFields(old[i]) EXCEPT
                                !.completed = ~old[i].completed]
                   ELSE new[i] = old[i]

\* a toggle of the third of four tasks, and before it a toggle of an id
\* that no task has
C12_Witness ==
    /\ Len(ops) = 3
    /\ ops[1].type = ADD_TODO
    /\ ops[2].type = TOGGLE_TODO /\ ops[2].payload = MissingId
    /\ ops[3].type = TOGGLE_TODO /\ ops[3].payload = "2"
    /\ snapshots[3].todos.todos = snapshots[2].todos.todos
    /\ store.todos.todos[3].completed

\* the tasks of a list whose id is not the given one, in the list's order
RECURSIVE TasksWithOtherId(_, _)
TasksWithOtherId(list, id) ==
    IF list = << >> THEN << >>
    ELSE IF Head(list).id = id THEN TasksWithOtherId(Tail(list), id)
    ELSE <<Head(list)>> \o TasksWithOtherId(Tail(list), id)

\* C13: after deleteTodo(id) no task with that id remains and all other
\* tasks remain, the same records in their previous order; when a task
\* with that id existed the list is exactly one shorter, and when none
\* existed the list is element-wise identical to before.
C13_DeleteRemovesOne ==
    \A k \in OpsOfType(DELETE_TODO) :
        LET old == StateBefore(k).todos.todos
            new == StateAfter(k).todos.todos
            existed == \E i \in 1..Len(old) : old[i].id = ops[k].payload
        IN  /\ \A i \in 1..Len(new) : new[i].id # ops[k].payload
            /\ new = TasksWithOtherId(old, ops[k].payload)
            /\ existed => Len(new) = Len(old) - 1
            /\ ~existed => new = old

\* C14: editTodo(id, text) sets the text of the task whose id matches and
\* changes nothing else: its id, completed and createdAt are kept, every
\* other task is the same record, length and order are kept, and with no
\* matching id the list is unchanged.
C14_EditOnlyText ==
    \A k \in OpsOfType(EDIT_TODO) :
        LET old == StateBefore(k).todos.todos
            new == StateAfter(k).todos.todos
        IN  /\ Len(new) = Len(old)
            /\ \A i \in 1..Len(old) :
                   IF old[i].id = ops[k].payload.id
                   THEN TaskFields(new[i]) =
                            [TaskFields(old[i]) EXCEPT
                                !.text = ops[k].payload.text]
                   ELSE new[i] = old[i]

\* an edit of the completed task "1", and before it an edit of an id that
\* no task has
C14_Witness ==
    /\ Len(ops) = 3
    /\ ops[1].type = ADD_TODO
    /\ ops[2].type = EDIT_TODO /\ ops[2].payload.id = MissingId
    /\ ops[3].type = EDIT_TODO /\ ops[3].payload.id = "1"
    /\ snapshots[3].todos.todos = snapshots[2].todos.todos
    /\ store.todos.todos[2].text = "Walk dog"
    /\ store.todos.todos[2].completed
    /\ store.todos.todos[1].text = "Buy milk"

\* the tasks of a list that are not completed, in the list's order
RECURSIVE ActiveTasks(_)
ActiveTasks(list) ==
    IF list = << >> THEN << >>
    ELSE IF Head(list).completed THEN ActiveTasks(Tail(list))
    ELSE <<Head(list)>> \o ActiveTasks(Tail(list))

\* C15: after clearCompleted the list is the subsequence of the previous
\* list made of the tasks with completed = false, the same records in
\* their previous order; no completed task remains, and filter and
\* searchTerm are unchanged.
C15_ClearKeepsActive ==
    \A k \in OpsOfType(CLEAR_COMPLETED) :
        LET old == StateBefore(k).todos
            new == StateAfter(k).todos
        IN  /\ new.todos = ActiveTasks(old.todos)
            /\ \A i \in 1..Len(new.todos) : ~new.todos[i].completed
            /\ new.filter = old.filter
            /\ new.searchTerm = old.searchTerm

\* clearCompleted on a list whose first and third task are completed, with
\* a filter set
C15_Witness ==
    /\ Len(ops) = 3
    /\ ops[1].type = SET_FILTER /\ ops[1].payload = "COMPLETED"
    /\ ops[2].type = TOGGLE_TODO /\ ops[2].payload = "3"
    /\ ops[3].type = CLEAR_COMPLETED
    /\ Len(store.todos.todos) = 1
    /\ store.todos.todos[1] = todoInitialState.todos[2]
    /\ store.todos.filter = "COMPLETED"

\* C16: markAllComplete is a toggle-all: on a list with a task that is not
\* completed it sets completed = true on every task, on a list whose tasks
\* are all completed it sets completed = false on every task; ids, texts,
\* length and order are unchanged.
C16_MarkAllTogglesAll ==
    \A k \in OpsOfType(MARK_ALL_COMPLETE) :
        LET old == StateBefore(k).todos.todos
            new == StateAfter(k).todos.todos
            someActive == \E i \in 1..Len(old) : ~old[i].completed
        IN  /\ Len(new) = Len(old)
            /\ \A i \in 1..Len(old) :
                   /\ new[i].id = old[i].id
                   /\ new[i].text = old[i].text
                   /\ new[i].completed = someActive

\* markAllComplete dispatched twice: all tasks completed in between, none
\* afterwards
C16_Witness ==
    /\ Len(ops) = 2
    /\ ops[1].type = MARK_ALL_COMPLETE
    /\ ops[2].type = MARK_ALL_COMPLETE
    /\ Len(store.todos.todos) = 3
    /\ \A i \in 1..3 : snapshots[2].todos.todos[i].completed
    /\ \A i \in 1..3 : ~store.todos.todos[i].completed

\* C17: setFilter(v) changes only filter (to v) and setSearchTerm(s) only
\* searchTerm (to s exactly); neither changes the task list, a task or
\* the other of the two fields.
C17_SettingsOnly ==
    /\ \A k \in OpsOfType(SET_FILTER) :
           LET old == StateBefore(k).todos
               new == StateAfter(k).todos
           IN  /\ new.filter = ops[k].payload
               /\ new.searchTerm = old.searchTerm
               /\ new.todos = old.todos
               /\ new.todosRef = old.todosRef
    /\ \A k \in OpsOfType(SET_SEARCH_TERM) :
           LET old == StateBefore(k).todos
               new == StateAfter(k).todos
           IN  /\ new.searchTerm = ops[k].payload
               /\ new.filter = old.filter
               /\ new.todos = old.todos
               /\ new.todosRef = old.todosRef

\* a filter outside the enum and a search term with a leading blank and
\* capitals, set on a changed list
C17_Witness ==
    /\ Len(ops) = 3
    /\ ops[1].type = ADD_TODO
    /\ ops[2].type = SET_FILTER
    /\ ops[3].type = SET_SEARCH_TERM
    /\ store.todos.filter = "ARCHIVED"
    /\ store.todos.searchTerm = " MILK"
    /\ Len(store.todos.todos) = 4

\* two characters that are equal or the upper and lower case of one letter
SameLetter(a, b) ==
    \/ a = b
    \/ a \in DOMAIN LowerCaseOf /\ LowerCaseOf[a] = b
    \/ b \in DOMAIN LowerCaseOf /\ LowerCaseOf[b] = a

\* the text contains the term, case-insensitively
ContainsIgnoringCase(text, term) ==
    LET textChars == Chars(text)
        termChars == Chars(term)
    IN  \E offset \in 0..(Len(textChars) - Len(termChars)) :
            \A p \in 1..Len(termChars) :
                SameLetter(textChars[offset + p], termChars[p])

\* the tasks of a list that match the search term and satisfy the filter,
\* in the list's order
RECURSIVE TasksToShow(_, _, _)
TasksToShow(list, filter, term) ==
    IF list = << >> THEN << >>
    ELSE LET todo == Head(list)
             matches == term = "" \/ ContainsIgnoringCase(todo.text, term)
             passes == CASE filter = "ACTIVE" -> ~todo.completed
                         [] filter = "COMPLETED" -> todo.completed
                         [] OTHER -> TRUE
         IN  (IF matches /\ passes THEN <<todo>> ELSE << >>)
                 \o TasksToShow(Tail(list), filter, term)

\* C18: selectFilteredTodos returns, in the list's order, exactly the
\* tasks whose text contains searchTerm case-insensitively (all tasks when
\* searchTerm is empty) and that satisfy the filter (ACTIVE: not completed;
\* COMPLETED: completed; ALL or a value outside the enum: no restriction);
\* with filter ACTIVE and an empty searchTerm these are exactly the tasks
\* with completed = false.
C18_FilteredTodos ==
    /\ selectFilteredTodos(store) =
           TasksToShow(store.todos.todos, store.todos.filter,
                       store.todos.searchTerm)
    /\ (store.todos.filter = "ACTIVE" /\ store.todos.searchTerm = "") =>
           selectFilteredTodos(store) = ActiveTasks(store.todos.todos)

\* a search in capitals that finds the one matching task among four, with
\* the ACTIVE filter set
C18_Witness ==
    /\ Len(ops) = 3
    /\ ops[1].type = ADD_TODO
    /\ store.todos.searchTerm = " MILK"
    /\ store.todos.filter = "ACTIVE"
    /\ Len(store.todos.todos) = 4
    /\ selectFilteredTodos(store) = <<store.todos.todos[1]>>

\* C20: selectAllTodosCompleted is true exactly when the list is non-empty
\* and no task of it is still active; on an empty list it is false.
C20_AllCompleted ==
    /\ selectAllTodosCompleted(store) <=>
           (store.todos.todos # << >> /\ ActiveTasks(store.todos.todos) = << >>)
    /\ store.todos.todos = << >> => ~selectAllTodosCompleted(store)

\* a list that was all completed is cleared: the selector was true on it and
\* is false on the empty list left behind
C20_Witness ==
    /\ ops # << >>
    /\ LastOp.type = CLEAR_COMPLETED
    /\ selectAllTodosCompleted(StateBefore(Len(ops)))
    /\ store.todos.todos = << >>
    /\ ~selectAllTodosCompleted(store)

\* C19: selectTodoStats returns total = number of tasks, completed = number
\* of tasks with completed = true, active = total - completed, and
\* completionPercentage = 100 * completed / total rounded to the nearest
\* integer, halves rounded up; on an empty list all four are 0.
C19_StatsExact ==
    LET list == store.todos.todos
        stats == selectTodoStats(store)
        done == Len(list) - Len(ActiveTasks(list))
    IN  /\ stats.total = Len(list)
        /\ stats.completed = done
        /\ stats.active = stats.total - stats.completed
        /\ stats.completionPercentage =
               IF list = << >> THEN 0
               ELSE (200 * done + Len(list)) \div (2 * Len(list))
        /\ list = << >> =>
               stats = [total |-> 0, completed |-> 0, active |-> 0,
                        completionPercentage |-> 0]

\* C21: for every reachable counter value, zero and negative values
\* included, selectIsPositive is true exactly when value > 0 and
\* selectIsEven exactly when 2 divides value.
C21_PositiveAndEven ==
    LET value == store.counter.value
    IN  /\ selectIsPositive(store) <=> value > 0
        /\ selectIsEven(store) <=> value % 2 = 0
        /\ value = 0 => selectIsEven(store) /\ ~selectIsPositive(store)

\* the value -3, reached by a decrement after incrementByAmount of a
\* negative amount or by decrements alone, is neither even nor positive
C21_Witness ==
    /\ store.counter.value = 0 - 3
    /\ ~selectIsEven(store)
    /\ ~selectIsPositive(store)

\* what names a task across operations: its id and creation time
TaskKeys(list) == [i \in 1..Len(list) |-> <<list[i].id, list[i].createdAt>>]

\* a is b with some entries left out, the rest in b's order
RECURSIVE IsSubsequence(_, _)
IsSubsequence(a, b) ==
    IF a = << >> THEN TRUE
    ELSE IF b = << >> THEN FALSE
    ELSE IF Head(a) = Head(b) THEN IsSubsequence(Tail(a), Tail(b))
    ELSE IsSubsequence(a, Tail(b))

\* the tasks created by the first k operations, most recent first: an
\* addTodo's task is the head of the list it returns
RECURSIVE CreatedNewestFirst(_)
CreatedNewestFirst(k) ==
    IF k = 0 THEN << >>
    ELSE (IF ops[k].type = ADD_TODO
          THEN TaskKeys(SubSeq(StateAfter(k).todos.todos, 1, 1))
          ELSE << >>) \o CreatedNewestFirst(k - 1)

ListTransformations ==
    {ADD_TODO, TOGGLE_TODO, EDIT_TODO, DELETE_TODO, CLEAR_COMPLETED}

\* a todo state held from earlier was not changed: whatever object of it
\* is still part of the current state (the state object, the array, a
\* task) has the contents it had when it was held
NeverChanged(held, current) ==
    /\ held.ref = current.ref => held = current
    /\ held.todosRef = current.todosRef => held.todos = current.todos
    /\ \A i \in 1..Len(held.todos) : \A j \in 1..Len(current.todos) :
           held.todos[i].ref = current.todos[j].ref =>
               held.todos[i] = current.todos[j]

\* what C24 says of the containers and of the snapshots: a list
\* transformation returns a new state object holding a new array, and every
\* snapshot held from before a dispatch still has its old list and values
NewContainersOldSnapshots ==
    /\ (ops # << >> /\ LastOp.type \in ListTransformations) =>
           /\ store.todos.ref # StateBefore(Len(ops)).todos.ref
           /\ store.todos.todosRef # StateBefore(Len(ops)).todos.todosRef
    /\ \A k \in 1..Len(ops) : NeverChanged(snapshots[k].todos, store.todos)

\* C24 as stated: after addTodo, toggleTodo, editTodo, deleteTodo or
\* clearCompleted every task whose fields the operation did not change is
\* the same record object as before, and no held snapshot has changed.
C24_Original ==
    /\ ops # << >> =>
           LET old == StateBefore(Len(ops)).todos.todos
               new == store.todos.todos
           IN  CASE LastOp.type = ADD_TODO -> Tail(new) = old
                 [] LastOp.type \in {DELETE_TODO, CLEAR_COMPLETED} ->
                        IsSubsequence(new, old)
                 [] LastOp.type \in {TOGGLE_TODO, EDIT_TODO} ->
                        /\ Len(new) = Len(old)
                        /\ \A i \in 1..Len(old) :
                               TaskFields(new[i]) = TaskFields(old[i]) =>
                                   new[i] = old[i]
                 [] OTHER -> TRUE
    /\ NewContainersOldSnapshots

\* C24 amended: after addTodo, toggleTodo, editTodo, deleteTodo or
\* clearCompleted every task the operation does not address (its id is not
\* the operation's id; for addTodo every previous task; for deleteTodo and
\* clearCompleted every survivor) is the same record object as before, and
\* no held snapshot has changed.  A task that editTodo addresses is a new
\* record even when the new text equals the old one.
C24_UnaddressedSameRecord ==
    /\ ops # << >> =>
           LET old == StateBefore(Len(ops)).todos.todos
               new == store.todos.todos
           IN  CASE LastOp.type = ADD_TODO -> Tail(new) = old
                 [] LastOp.type \in {DELETE_TODO, CLEAR_COMPLETED} ->
                        IsSubsequence(new, old)
                 [] LastOp.type = TOGGLE_TODO ->
                        /\ Len(new) = Len(old)
                        /\ \A i \in 1..Len(old) :
                               old[i].id # LastOp.payload => new[i] = old[i]
                 [] LastOp.type = EDIT_TODO ->
                        /\ Len(new) = Len(old)
                        /\ \A i \in 1..Len(old) :
                               old[i].id # LastOp.payload.id =>
                                   new[i] = old[i]
                 [] OTHER -> TRUE
    /\ NewContainersOldSnapshots

\* a task edited twice to the same text: the second edit changes none of
\* its fields and still returns a new record for it; the other tasks are
\* the records they were, and the snapshot held before the first edit still
\* shows the first text
C24_Witness ==
    /\ Len(ops) = 3
    /\ ops[1].type = ADD_TODO
    /\ ops[2].type = EDIT_TODO
    /\ ops[3].type = EDIT_TODO
    /\ ops[2].payload.id = store.todos.todos[1].id
    /\ ops[3].payload.id = store.todos.todos[1].id
    /\ TaskFields(store.todos.todos[1]) = TaskFields(snapshots[3].todos.todos[1])
    /\ store.todos.todos[1].ref # snapshots[3].todos.todos[1].ref
    /\ Tail(store.todos.todos) = Tail(snapshots[3].todos.todos)
    /\ snapshots[2].todos.todos[1].text = "Buy milk"
    /\ store.todos.todos[1].text = "Walk dog"

\* C26: on a non-empty list the bulk-toggle button does what its label
\* says: pressed under "Mark All Complete" it leaves every task completed,
\* pressed under "Mark All Incomplete" it leaves every task not completed;
\* afterwards all tasks share one completed value and
\* selectAllTodosCompleted has flipped.
C26_ButtonDoesWhatItSays ==
    (/\ ops # << >>
     /\ LastOp.type = MARK_ALL_COMPLETE
     /\ StateBefore(Len(ops)).todos.todos # << >>) =>
        LET before == StateBefore(Len(ops))
            new == store.todos.todos
        IN  /\ BulkToggleLabel(before) = "Mark All Complete" =>
                   \A i \in 1..Len(new) : new[i].completed
            /\ BulkToggleLabel(before) = "Mark All Incomplete" =>
                   \A i \in 1..Len(new) : ~new[i].completed
            /\ BulkToggleLabel(before)
                   \in {"Mark All Complete", "Mark All Incomplete"}
            /\ \A i, j \in 1..Len(new) : new[i].completed = new[j].completed
            /\ selectAllTodosCompleted(store)
                   # selectAllTodosCompleted(before)
            /\ BulkToggleLabel(store) # BulkToggleLabel(before)

\* the button pressed twice: first under "Mark All Complete", then under
\* "Mark All Incomplete", leaving the three seeded tasks not completed
C26_Witness ==
    /\ Len(ops) = 2
    /\ ops[1].type = MARK_ALL_COMPLETE
    /\ ops[2].type = MARK_ALL_COMPLETE
    /\ BulkToggleLabel(snapshots[1]) = "Mark All Complete"
    /\ BulkToggleLabel(snapshots[2]) = "Mark All Incomplete"
    /\ Len(store.todos.todos) = 3
    /\ \A i \in 1..3 : ~store.todos.todos[i].completed
    /\ BulkToggleLabel(store) = "Mark All Complete"

\* the state with the display settings replaced
WithDisplay(state, filter, term) ==
    [state EXCEPT !.todos.filter = filter, !.todos.searchTerm = term]

\* C27: the derived views agree and do not depend on the display
\* settings: total = completed + active = length of the list, the
\* percentage lies in 0..100, completed and active are the numbers of
\* tasks selectFilteredTodos shows under COMPLETED and under ACTIVE with an
\* empty search term, and setFilter and setSearchTerm change neither
\* selectTodoStats nor selectAllTodosCompleted.
C27_ViewsAgree ==
    LET stats == selectTodoStats(store)
    IN  /\ stats.total = stats.completed + stats.active
        /\ stats.total = Len(store.todos.todos)
        /\ stats.completionPercentage \in 0..100
        /\ stats.completed =
               Len(selectFilteredTodos(WithDisplay(store, "COMPLETED", "")))
        /\ stats.active =
               Len(selectFilteredTodos(WithDisplay(store, "ACTIVE", "")))
        /\ (ops # << >> /\ LastOp.type \in {SET_FILTER, SET_SEARCH_TERM}) =>
               /\ stats = selectTodoStats(StateBefore(Len(ops)))
               /\ selectAllTodosCompleted(store)
                      = selectAllTodosCompleted(StateBefore(Len(ops)))

\* four tasks of which one is completed, displayed under COMPLETED with a
\* search term that matches only an active task: nothing is displayed and
\* the statistics still count all four
C27_Witness ==
    /\ Len(ops) = 3
    /\ ops[1].type = ADD_TODO
    /\ ops[2].type = SET_FILTER
    /\ ops[3].type = SET_SEARCH_TERM
    /\ store.todos.filter = "COMPLETED"
    /\ store.todos.searchTerm = " MILK"
    /\ selectFilteredTodos(store) = << >>
    /\ selectTodoStats(store) =
           [total |-> 4, completed |-> 1, active |-> 3,
            completionPercentage |-> 25]

\* a text that is empty or made of white space only
IsBlank(text) == \A i \in 1..Len(Chars(text)) : Chars(text)[i] \in WhiteSpace

\* short is long without the white space around it
IsTrimOf(short, long) ==
    LET sc == Chars(short)
        lc == Chars(long)
    IN  /\ sc # << >>
        /\ sc[1] \notin WhiteSpace
        /\ sc[Len(sc)] \notin WhiteSpace
        /\ \E lead \in 0..(Len(lc) - Len(sc)) :
               /\ \A i \in 1..Len(sc) : lc[lead + i] = sc[i]
               /\ \A i \in 1..lead : lc[i] \in WhiteSpace
               /\ \A i \in (lead + Len(sc) + 1)..Len(lc) :
                      lc[i] \in WhiteSpace

\* the integers the amount entries stand for; the empty entry stands for
\* none
AmountOf == [entry \in {"2", "-3", "1.5"} |->
                CASE entry = "2" -> 2 [] entry = "-3" -> 0 - 3 [] OTHER -> 1]

\* C25: through the forms no task gets an empty or whitespace-only text
\* and counter.value stays an integer: handleAddTodo and handleSaveEdit
\* dispatch exactly when the trimmed text is non-empty, and dispatch the
\* trimmed text; handleIncrementByAmount dispatches exactly when the entry
\* parses to a number, and dispatches its integer; a handler that
\* dispatches nothing leaves the store's state as it was.
C25_FormsValidate ==
    /\ \A i \in 1..Len(store.todos.todos) :
           ~IsBlank(store.todos.todos[i].text)
    /\ store.counter.value \in Int
    /\ handled.handler = "handleAddTodo" =>
           IF IsBlank(handled.input) THEN ~handled.dispatched
           ELSE /\ handled.dispatched
                /\ LastOp.type = ADD_TODO
                /\ IsTrimOf(LastOp.payload, handled.input)
    /\ handled.handler = "handleSaveEdit" =>
           IF IsBlank(handled.input) THEN ~handled.dispatched
           ELSE /\ handled.dispatched
                /\ LastOp.type = EDIT_TODO
                /\ IsTrimOf(LastOp.payload.text, handled.input)
    /\ handled.handler = "handleIncrementByAmount" =>
           IF handled.input \notin DOMAIN AmountOf THEN ~handled.dispatched
           ELSE /\ handled.dispatched
                /\ LastOp.type = INCREMENT_BY_AMOUNT
                /\ LastOp.payload = AmountOf[handled.input]
    /\ IF handled.dispatched
       THEN ops # << >> /\ handled.before = StateBefore(Len(ops))
       ELSE store = handled.before

\* the entry " Buy milk " submitted: the task added has the text
\* "Buy milk" and the input is cleared
C25_Witness ==
    /\ handled.handler = "handleAddTodo"
    /\ handled.input = " Buy milk "
    /\ handled.dispatched
    /\ Len(store.todos.todos) = 4
    /\ store.todos.todos[1].text = "Buy milk"
    /\ ui.newTodoText = ""

\* C28: when the task being edited was removed from the list before the
\* edit is saved (it was completed and clearCompleted was dispatched while
\* editingId still named it), saving the edit dispatches editTodo for an id
\* that no task of the list has, and the list is unchanged: the removed
\* task is not recreated and no task's text changes.  Every state of
\* SpecEditing follows that removal, and every save in it is the save of
\* that edit.
C28_SaveAfterRemoval ==
    (handled.handler = "handleSaveEdit" /\ handled.dispatched) =>
        LET before == handled.before.todos.todos
            after == store.todos.todos
        IN  /\ LastOp.type = EDIT_TODO
            /\ \A i \in 1..Len(before) : before[i].id # LastOp.payload.id
            /\ Len(after) = Len(before)
            /\ \A i \in 1..Len(before) :
                   TaskFields(after[i]) = TaskFields(before[i])

====
